---- MODULE Spec2Model ----
(***************************************************************************)
(* Model of the terminal progress writer of progress/tty.go: the event    *)
(* store filled by Event, the repaint loop of Start, Stop's signal on the  *)
(* done channel, and print's redraw of the block of lines.                 *)
(***************************************************************************)
EXTENDS Integers, Sequences, FiniteSets, TLC

\* ---------------------------------------------------------------- bounds

\* The clock runs from 1 to MaxTime; one unit is one ticker period.
MaxTime == 3

\* How many Event calls a behaviour makes at most.
MaxEvents == 3

\* How many Event calls a behaviour makes at most while Stop and the
\* cancellation of the context are in play.
MaxCalls == 1

\* The terminal widths looked at run from -MaxWidth to MaxWidth.
MaxWidth == 12

\* ------------------------------------------------------------ input sets

IDs == {"svc1", "db"}

Working == "Working"
Done == "Done"
Error == "Error"
Statuses == {Working, Done, Error}

\* What a producer reports of an operation: a status with its text and its
\* status text.
Reports == {[Status |-> Working, Text |-> "starting", StatusText |-> ""],
            [Status |-> Working, Text |-> "up", StatusText |-> "50%"],
            [Status |-> Done, Text |-> "up", StatusText |-> "ok"],
            [Status |-> Error, Text |-> "starting", StatusText |-> "failed"]}

Producers == {"p1", "p2"}

\* The calls of Stop, made one after the other by the client of the writer.
Stoppers == {1, 2}

\* The zero value of time.Time: the endTime of an event that was never stopped.
ZeroTime == 0

\* What Event is called with: the exported fields of an Event.
EventInputs ==
    {[ID |-> id, Status |-> r.Status, Text |-> r.Text, StatusText |-> r.StatusText] :
        id \in IDs, r \in Reports}

\* The zero Event that a lookup of an absent key of the map returns.
NoEvent == [ID |-> "", Status |-> "", Text |-> "", StatusText |-> "",
            startTime |-> ZeroTime, endTime |-> ZeroTime]

NoHeader == [done |-> 0, total |-> 0, blue |-> FALSE]

\* No call of lineText is looked at on its own.
NoLine == [fieldWidth |-> 0, length |-> 0]

NoLayout == [pc |-> "none", event |-> NoEvent, terminalWidth |-> 0, statusPadding |-> 0,
             line |-> NoLine]

VARIABLES
    events,       \* w.events: ID -> the stored Event, NoEvent for an absent key
    eventIDs,     \* w.eventIDs
    repeated,     \* w.repeated
    numLines,     \* w.numLines
    mtx,          \* w.mtx: "free" or who holds it
    spinners,     \* the spinner object of each stored event: "none", "running", "stopped"
    prod,         \* each producer's position in Event and its argument e
    stop,         \* each call of Stop: its position
    sinceCall,    \* the calls of print begun since Stop was first called
    sinceLeave,   \* the calls of print begun since Start left its select for good
    start,        \* the Start goroutine: position, select branch, print's locals, return value
    cancelled,    \* ctx.Done() is closed
    tickPending,  \* a tick waits in ticker.C
    now,          \* time.Now()
    layout,       \* one call of lineText: its arguments and the line it returns
    budget,       \* Event calls left to make
    header,       \* the header line on the terminal
    lines,        \* the data lines on the terminal, top to bottom
    cursorRow,    \* the row of the cursor, 0 being the row it started on
    headerRow,    \* the row the header was last written on
    cursorHidden  \* the cursor is hidden

vars == <<events, eventIDs, repeated, numLines, mtx, spinners, prod, stop, sinceCall,
          sinceLeave, start,
          cancelled, tickPending, now, budget, header, lines, cursorRow, headerRow,
          cursorHidden, layout>>

storeVars == <<events, eventIDs, spinners>>
countVars == <<sinceCall, sinceLeave>>
termVars == <<header, lines, cursorRow, headerRow, cursorHidden>>

\* ------------------------------------------------------- pure functions

RECURSIVE containsFrom(_, _, _)
containsFrom(ar, needle, i) ==
    IF i > Len(ar) THEN FALSE
    ELSE IF needle = ar[i] THEN TRUE
    ELSE containsFrom(ar, needle, i + 1)

\* contains with a comparison that never succeeds.
containsNever(ar, needle) == FALSE

contains(ar, needle) == containsFrom(ar, needle, 1)

\* A count of every event that is no longer Working.
numNotWorking(evs) ==
    Cardinality({id \in IDs : evs[id] # NoEvent /\ evs[id].Status # Working})

\* numDone ranges over the map: the keys that are present.
numDone(evs) == Cardinality({id \in IDs : evs[id] # NoEvent /\ evs[id].Status = Done})

\* len(fmt.Sprintf("%s %s", ID, Text))
textLen(ev) == Len(ev.ID) + 1 + Len(ev.Text)

RECURSIVE paddingFrom(_, _, _, _)
paddingFrom(evs, ids, i, acc) ==
    IF i > Len(ids) THEN acc
    ELSE LET l == textLen(evs[ids[i]])
         IN paddingFrom(evs, ids, i + 1, IF acc < l THEN l ELSE acc)

\* A statusPadding taken from the first event alone.
statusPaddingFirst(evs, ids) == textLen(evs[ids[1]])

\* statusPadding as print computes it over w.eventIDs.
statusPaddingOf(evs, ids) == paddingFrom(evs, ids, 1, 0)

\* event.stop(): the end time is taken now.
stopEvent(ev, t) == [ev EXCEPT !.endTime = t]

lineColor(ev) ==
    IF ev.Status = Error THEN "red"
    ELSE IF ev.Status = Done THEN "blue"
    ELSE "white"

\* lineText: what the line of an event shows. elapsed is in ticker periods.
lineText(ev, statusPadding, t) ==
    LET endTime == IF ev.Status # Working THEN ev.endTime ELSE t
        pad == statusPadding - textLen(ev)
    IN [ID |-> ev.ID, Status |-> ev.Status, Text |-> ev.Text,
        StatusText |-> ev.StatusText,
        elapsed |-> endTime - ev.startTime,
        padding |-> IF pad < 0 THEN 0 ELSE pad,
        color |-> lineColor(ev)]

RECURSIVE numDigits(_)
numDigits(n) == IF n < 10 THEN 1 ELSE 1 + numDigits(n \div 10)

\* len(fmt.Sprintf("%.1fs\n", elapsed)): sign, whole seconds, point, one
\* decimal, "s" and the newline. elapsed is in ticker periods, tenths of a second.
timerLen(elapsed) ==
    LET a == IF elapsed < 0 THEN 0 - elapsed ELSE elapsed
    IN (IF elapsed < 0 THEN 1 ELSE 0) + numDigits(a \div 10) + 4

\* len of the text lineText formats: " spinner ID Text" + padding + " StatusText",
\* the spinner frame being one character.
lineTextLen(ev, padding) ==
    1 + 1 + 1 + Len(ev.ID) + 1 + Len(ev.Text) + padding + 1 + Len(ev.StatusText)

\* align(l, r, w), l and r given by their lengths: the field width handed to
\* Sprintf's %-*s is w-len(r)-1 as it comes; fmt takes a negative width as its
\* absolute value, left-justified. The line is l padded to the field, a space, r.
align(l, r, w) ==
    LET fieldWidth == w - r - 1
        field == IF fieldWidth < 0 THEN 0 - fieldWidth ELSE fieldWidth
    IN [fieldWidth |-> fieldWidth,
        length |-> (IF l < field THEN field ELSE l) + 1 + r]

\* lineText as far as align: the layout of the line of ev on a terminal of
\* terminalWidth columns.
lineLayout(ev, terminalWidth, statusPadding, t) ==
    LET line == lineText(ev, statusPadding, t)
    IN align(lineTextLen(ev, line.padding), timerLen(line.elapsed), terminalWidth)

\* ----------------------------------------------------------------- state

IdleStart == [pc |-> "idle", branch |-> "none", i |-> 0, statusPadding |-> 0,
              result |-> "none"]

InitWith(calls) ==
    /\ events = [id \in IDs |-> NoEvent]
    /\ eventIDs = <<>>
    /\ repeated = FALSE
    /\ numLines = 0
    /\ mtx = "free"
    /\ spinners = [id \in IDs |-> "none"]
    /\ prod = [p \in Producers |-> [pc |-> "idle", e |-> NoEvent]]
    /\ stop = [s \in Stoppers |-> "idle"]
    /\ sinceCall = 0
    /\ sinceLeave = 0
    /\ start = IdleStart
    /\ cancelled = FALSE
    /\ tickPending = FALSE
    /\ now = 1
    /\ budget = calls
    /\ header = NoHeader
    /\ lines = <<>>
    /\ cursorRow = 0
    /\ headerRow = 0
    /\ cursorHidden = FALSE

\* The writer as newTTYWriter leaves it, nothing called yet: an empty store, a
\* free lock, and a done channel without a buffer, on which a send waits for
\* the receive.
Init == InitWith(MaxCalls) /\ layout = NoLayout

InitRepaint == InitWith(MaxEvents) /\ layout = NoLayout

\* A lock that does not exclude.
CanLockAlways == TRUE

\* mtx.Lock() returns only when nobody holds the lock.
CanLock == mtx = "free"

\* ------------------------------------------------------------------ Event

\* if !contains(w.eventIDs, e.ID) { w.eventIDs = append(w.eventIDs, e.ID) }
appendID(ids, id) == IF ~contains(ids, id) THEN Append(ids, id) ELSE ids

\* The branch for an ID the map holds: stop on a move to Done, then overwrite
\* Status, Text and StatusText.
updateEvent(event, e, t) ==
    LET stopped == IF event.Status # Done /\ e.Status = Done
                   THEN stopEvent(event, t) ELSE event
    IN [stopped EXCEPT !.Status = e.Status, !.Text = e.Text,
                       !.StatusText = e.StatusText]

\* The branch for an ID the map does not hold.
newEvent(e, t) ==
    [ID |-> e.ID, Status |-> e.Status, Text |-> e.Text, StatusText |-> e.StatusText,
     startTime |-> t, endTime |-> ZeroTime]

\* Event storing its argument in both branches, as for a new ID.
storeEventAnew(evs, e, t) == [evs EXCEPT ![e.ID] = newEvent(e, t)]

storeEvent(evs, e, t) ==
    IF evs[e.ID] # NoEvent
    THEN [evs EXCEPT ![e.ID] = updateEvent(evs[e.ID], e, t)]
    ELSE [evs EXCEPT ![e.ID] = newEvent(e, t)]

storeSpinner(sp, evs, e) ==
    IF evs[e.ID] # NoEvent
    THEN IF evs[e.ID].Status # Done /\ e.Status = Done
         THEN [sp EXCEPT ![e.ID] = "stopped"] ELSE sp
    ELSE [sp EXCEPT ![e.ID] = "running"]

\* Event is called with e and takes the lock.
EventCall(p, e) ==
    /\ prod[p].pc = "idle"
    /\ budget > 0
    /\ CanLock
    /\ mtx' = p
    /\ prod' = [prod EXCEPT ![p] = [pc |-> "body", e |-> e]]
    /\ budget' = budget - 1
    /\ UNCHANGED <<storeVars, termVars, repeated, numLines, stop, countVars, start, cancelled,
                   tickPending, now>>
    /\ UNCHANGED layout

\* The body of Event, under the lock.
EventBody(p) ==
    /\ prod[p].pc = "body"
    /\ eventIDs' = appendID(eventIDs, prod[p].e.ID)
    /\ events' = storeEvent(events, prod[p].e, now)
    /\ spinners' = storeSpinner(spinners, events, prod[p].e)
    /\ prod' = [prod EXCEPT ![p].pc = "unlock"]
    /\ UNCHANGED <<termVars, repeated, numLines, mtx, stop, countVars, start, cancelled,
                   tickPending, now, budget>>
    /\ UNCHANGED layout

\* defer w.mtx.Unlock()
EventUnlock(p) ==
    /\ prod[p].pc = "unlock"
    /\ mtx' = "free"
    /\ prod' = [prod EXCEPT ![p] = [pc |-> "idle", e |-> NoEvent]]
    /\ UNCHANGED <<storeVars, termVars, repeated, numLines, stop, countVars, start, cancelled,
                   tickPending, now, budget>>
    /\ UNCHANGED layout

\* ------------------------------------------------------- the environment

\* A ticker period passes; the ticker of a started Start leaves a tick in its
\* channel, which holds one.
Advance ==
    /\ now < MaxTime
    /\ now' = now + 1
    /\ tickPending' = (tickPending \/ start.pc # "idle")
    /\ UNCHANGED <<storeVars, termVars, repeated, numLines, mtx, prod, stop, countVars, start,
                   cancelled, budget>>
    /\ UNCHANGED layout

\* The ticker fires in the last period of the clock: the clock of the model
\* stops at MaxTime, the ticker of ttyWriter.Start never does.
Tick ==
    /\ now = MaxTime
    /\ start.pc # "idle"
    /\ ~tickPending
    /\ tickPending' = TRUE
    /\ UNCHANGED <<storeVars, termVars, repeated, numLines, mtx, prod, stop, countVars, start,
                   cancelled, now, budget>>
    /\ UNCHANGED layout

\* The context given to Start is cancelled.
Cancel ==
    /\ ~cancelled
    /\ cancelled' = TRUE
    /\ UNCHANGED <<storeVars, termVars, repeated, numLines, mtx, prod, stop, countVars, start,
                   tickPending, now, budget>>
    /\ UNCHANGED layout

\* ------------------------------------------------------------------- Stop

\* Stop is called on a writer whose Start has been called, after the calls of
\* Stop before it have returned: w.done <- true blocks until Start receives from
\* the channel.
StopCall(s) ==
    /\ stop[s] = "idle"
    /\ start.pc # "idle"
    /\ \A t \in Stoppers : t < s => stop[t] = "returned"
    /\ stop' = [stop EXCEPT ![s] = "sending"]
    /\ UNCHANGED <<countVars, storeVars, termVars, repeated, numLines, mtx, prod, start,
                   cancelled, tickPending, now, budget>>
    /\ UNCHANGED layout

\* ------------------------------------------------------------------ Start

StartCall ==
    /\ start.pc = "idle"
    /\ start' = [start EXCEPT !.pc = "select"]
    /\ UNCHANGED <<storeVars, termVars, repeated, numLines, mtx, prod, stop, countVars,
                   cancelled, tickPending, now, budget>>
    /\ UNCHANGED layout

\* The cancellation branch returning the error without its print.
SelectCtxNoPrint ==
    /\ start.pc = "select"
    /\ cancelled
    /\ start' = [start EXCEPT !.pc = "returned", !.branch = "ctx", !.result = "ctxErr"]
    /\ UNCHANGED <<storeVars, termVars, repeated, numLines, mtx, prod, stop, countVars,
                   cancelled, tickPending, now, budget>>
    /\ UNCHANGED layout

\* case <-ctx.Done()
SelectCtx ==
    /\ start.pc = "select"
    /\ cancelled
    /\ start' = [start EXCEPT !.pc = "print", !.branch = "ctx"]
    /\ UNCHANGED <<storeVars, termVars, repeated, numLines, mtx, prod, stop, countVars,
                   cancelled, tickPending, now, budget>>
    /\ UNCHANGED layout

\* case <-w.done: the send of one blocked Stop completes.
SelectDone(s) ==
    /\ start.pc = "select"
    /\ stop[s] = "sending"
    /\ stop' = [stop EXCEPT ![s] = "returned"]
    /\ start' = [start EXCEPT !.pc = "print", !.branch = "done"]
    /\ UNCHANGED <<countVars, storeVars, termVars, repeated, numLines, mtx, prod,
                   cancelled, tickPending, now, budget>>
    /\ UNCHANGED layout

\* The ticker branch taking its tick without the print.
SelectTickNoPrint ==
    /\ start.pc = "select"
    /\ tickPending
    /\ tickPending' = FALSE
    /\ UNCHANGED <<storeVars, termVars, repeated, numLines, mtx, prod, stop, countVars,
                   start, cancelled, now, budget>>
    /\ UNCHANGED layout

\* case <-ticker.C
SelectTick ==
    /\ start.pc = "select"
    /\ tickPending
    /\ tickPending' = FALSE
    /\ start' = [start EXCEPT !.pc = "print", !.branch = "tick"]
    /\ UNCHANGED <<storeVars, termVars, repeated, numLines, mtx, prod, stop, countVars,
                   cancelled, now, budget>>
    /\ UNCHANGED layout

\* ------------------------------------------------------------------ print

\* The cursor movement without the Down(1) of the first repaint.
cursorUpOnly(row, n, rep) == row - (n + 1)

\* Up(1) numLines+1 times, Down(1) on the first repaint.
cursorAfterMove(row, n, rep) == row - (n + 1) + (IF rep THEN 0 ELSE 1)

\* Start with the return values of its two final branches exchanged.
afterPrintSwapped(st) ==
    IF st.branch = "ctx" THEN [IdleStart EXCEPT !.pc = "returned", !.branch = "ctx",
                                                !.result = "nil"]
    ELSE IF st.branch = "done" THEN [IdleStart EXCEPT !.pc = "returned",
                                                      !.branch = "done",
                                                      !.result = "ctxErr"]
    ELSE [IdleStart EXCEPT !.pc = "select"]

\* What Start does after print: return ctx.Err(), return nil, or loop.
afterPrint(st) ==
    IF st.branch = "ctx" THEN [IdleStart EXCEPT !.pc = "returned", !.branch = "ctx",
                                                !.result = "ctxErr"]
    ELSE IF st.branch = "done" THEN [IdleStart EXCEPT !.pc = "returned",
                                                      !.branch = "done",
                                                      !.result = "nil"]
    ELSE [IdleStart EXCEPT !.pc = "select"]

\* print without its early return on an empty store.
PrintBeginNoSkip ==
    /\ start.pc = "print"
    /\ CanLock
    /\ sinceCall' = (IF \E s \in Stoppers : stop[s] # "idle" THEN sinceCall + 1
                     ELSE sinceCall)
    /\ sinceLeave' = (IF start.branch \in {"ctx", "done"} THEN sinceLeave + 1
                      ELSE sinceLeave)
    /\ mtx' = "print"
    /\ cursorRow' = cursorAfterMove(cursorRow, numLines, repeated)
    /\ repeated' = TRUE
    /\ cursorHidden' = TRUE
    /\ start' = [start EXCEPT !.pc = "header"]
    /\ UNCHANGED <<header, lines, headerRow, stop, storeVars, numLines, prod, cancelled,
                   tickPending, now, budget, layout>>

\* print takes the lock. On an empty store it returns at once, releasing the
\* lock; else the cursor moves up and is hidden.
PrintBegin ==
    /\ start.pc = "print"
    /\ CanLock
    /\ sinceCall' = (IF \E s \in Stoppers : stop[s] # "idle" THEN sinceCall + 1
                     ELSE sinceCall)
    /\ sinceLeave' = (IF start.branch \in {"ctx", "done"} THEN sinceLeave + 1
                      ELSE sinceLeave)
    /\ UNCHANGED stop
    /\ IF Len(eventIDs) = 0
       THEN /\ start' = afterPrint(start)
            /\ UNCHANGED <<mtx, repeated, termVars>>
       ELSE /\ mtx' = "print"
            /\ cursorRow' = cursorAfterMove(cursorRow, numLines, repeated)
            /\ repeated' = TRUE
            /\ cursorHidden' = TRUE
            /\ start' = [start EXCEPT !.pc = "header"]
            /\ UNCHANGED <<header, lines, headerRow>>
    /\ UNCHANGED <<storeVars, numLines, prod, cancelled, tickPending, now, budget>>
    /\ UNCHANGED layout

\* A header whose total is the live number of stored events.
headerLive(evs, n) ==
    [done |-> numDone(evs), total |-> Cardinality({id \in IDs : evs[id] # NoEvent}),
     blue |-> (n # 0 /\ numDone(evs) = n)]

\* firstLine, and whether it is applied the blue colour.
headerOf(evs, n) ==
    [done |-> numDone(evs), total |-> n,
     blue |-> (n # 0 /\ numDone(evs) = n)]

\* The header is written and statusPadding computed.
PrintHeader ==
    /\ start.pc = "header"
    /\ header' = headerOf(events, numLines)
    /\ headerRow' = cursorRow
    /\ cursorRow' = cursorRow + 1
    /\ start' = [start EXCEPT !.pc = "lines", !.i = 1,
                              !.statusPadding = statusPaddingOf(events, eventIDs)]
    /\ UNCHANGED <<storeVars, lines, cursorHidden, repeated, numLines, mtx, prod,
                   stop, countVars, cancelled, tickPending, now, budget>>
    /\ UNCHANGED layout

\* A line replaces the one on its row of the terminal.
writeLine(ls, i, l) == IF i <= Len(ls) THEN [ls EXCEPT ![i] = l] ELSE Append(ls, l)

\* One turn of the loop over w.eventIDs.
PrintLine ==
    /\ start.pc = "lines"
    /\ start.i <= Len(eventIDs)
    /\ lines' = writeLine(lines, start.i,
                          lineText(events[eventIDs[start.i]], start.statusPadding, now))
    /\ cursorRow' = cursorRow + 1
    /\ start' = [start EXCEPT !.i = @ + 1]
    /\ UNCHANGED <<storeVars, header, headerRow, cursorHidden, repeated, numLines,
                   mtx, prod, stop, countVars, cancelled, tickPending, now, budget>>
    /\ UNCHANGED layout

\* print without its deferred Show: the cursor stays hidden.
PrintEndNoShow ==
    /\ start.pc = "lines"
    /\ start.i > Len(eventIDs)
    /\ numLines' = start.i - 1
    /\ mtx' = "free"
    /\ start' = afterPrint(start)
    /\ UNCHANGED <<storeVars, termVars, repeated, prod, stop, countVars, cancelled,
                   tickPending, now, budget>>
    /\ UNCHANGED layout

\* The loop is over: w.numLines = numLines, then the deferred calls: the cursor
\* is shown and the lock released.
PrintEnd ==
    /\ start.pc = "lines"
    /\ start.i > Len(eventIDs)
    /\ numLines' = start.i - 1
    /\ cursorHidden' = FALSE
    /\ mtx' = "free"
    /\ start' = afterPrint(start)
    /\ UNCHANGED <<storeVars, header, lines, cursorRow, headerRow, repeated,
                   prod, stop, countVars, cancelled, tickPending, now, budget>>
    /\ UNCHANGED layout

\* ---------------------------------------------------------- specification

Next ==
    \/ \E p \in Producers, e \in EventInputs : EventCall(p, e)
    \/ \E p \in Producers : EventBody(p)
    \/ \E p \in Producers : EventUnlock(p)
    \/ Advance
    \/ Cancel
    \/ \E s \in Stoppers : StopCall(s)
    \/ StartCall
    \/ SelectCtx
    \/ \E s \in Stoppers : SelectDone(s)
    \/ SelectTick
    \/ PrintBegin
    \/ PrintHeader
    \/ PrintLine
    \/ PrintEnd

\* The writer with its whole life cycle: Event, Start, Stop and cancellation.
Spec == Init /\ [][Next]_vars

\* The writer while Start runs, neither stopped nor cancelled: the producers,
\* the ticker and the repaints.
NextRepaint ==
    \/ \E p \in Producers, e \in EventInputs : EventCall(p, e)
    \/ \E p \in Producers : EventBody(p)
    \/ \E p \in Producers : EventUnlock(p)
    \/ Advance
    \/ StartCall
    \/ SelectTick
    \/ PrintBegin
    \/ PrintHeader
    \/ PrintLine
    \/ PrintEnd

RepaintSpec == InitRepaint /\ [][NextRepaint]_vars

\* The writer while nobody calls Stop: the producers, the ticker, the repaints
\* and the cancellation of the context.
NextCancel ==
    \/ \E p \in Producers, e \in EventInputs : EventCall(p, e)
    \/ \E p \in Producers : EventBody(p)
    \/ \E p \in Producers : EventUnlock(p)
    \/ Advance
    \/ Cancel
    \/ StartCall
    \/ SelectCtx
    \/ SelectTick
    \/ PrintBegin
    \/ PrintHeader
    \/ PrintLine
    \/ PrintEnd

\* A step of the goroutine that runs Start, Stop not being called.
StartStep ==
    \/ SelectCtx
    \/ SelectTick
    \/ PrintBegin
    \/ PrintHeader
    \/ PrintLine
    \/ PrintEnd

\* A step of a producer that holds the lock.
ProducerStep == \E p \in Producers : EventBody(p) \/ EventUnlock(p)

\* The scheduler runs every goroutine that can run: Start goes on while it can
\* take a step, and a producer inside Event reaches its Unlock.
CancelSpec ==
    Init /\ [][NextCancel]_vars /\ WF_vars(StartStep) /\ WF_vars(ProducerStep)

\* The writer while nobody calls Stop, with a ticker that goes on firing.
NextTick ==
    \/ \E p \in Producers, e \in EventInputs : EventCall(p, e)
    \/ \E p \in Producers : EventBody(p)
    \/ \E p \in Producers : EventUnlock(p)
    \/ Advance
    \/ Tick
    \/ Cancel
    \/ StartCall
    \/ SelectCtx
    \/ SelectTick
    \/ PrintBegin
    \/ PrintHeader
    \/ PrintLine
    \/ PrintEnd

\* A period of the ticker passes.
TickerStep == Advance \/ Tick

\* Fair scheduling: the Start goroutine goes on while it can take a step, a
\* producer inside Event reaches its Unlock, and the ticker keeps firing.
TickSpec ==
    /\ Init /\ [][NextTick]_vars
    /\ WF_vars(StartStep) /\ WF_vars(ProducerStep) /\ WF_vars(TickerStep)

\* ------------------------------------------------------------ line layout

\* What goterm.Width() may return, -1 (no terminal) and 0 included.
Widths == (0 - MaxWidth)..MaxWidth

\* The events the store can hold: recorded by one call, or by one call and
\* updated by a later one.
StoredEvents ==
    {newEvent(e, t) : e \in EventInputs, t \in 1..MaxTime}
    \cup {updateEvent(newEvent(e, t), [f EXCEPT !.ID = e.ID], u) :
            e \in EventInputs, f \in EventInputs, t \in 1..MaxTime, u \in 1..MaxTime}

\* The arguments of one call of lineText made by print at MaxTime: an event of
\* the store, the width of the terminal and the statusPadding of the repaint,
\* which is at least the textLen of the event.
LayoutInputs ==
    {in \in {[pc |-> "call", event |-> ev, terminalWidth |-> w,
              statusPadding |-> textLen(other), line |-> NoLine] :
                ev \in StoredEvents, w \in Widths, other \in StoredEvents} :
        in.statusPadding >= textLen(in.event)}

LayoutInit == InitWith(0) /\ layout \in LayoutInputs

\* lineText is called and returns the line.
LayoutLine ==
    /\ layout.pc = "call"
    /\ layout' = [layout EXCEPT !.pc = "done",
                                !.line = lineLayout(layout.event, layout.terminalWidth,
                                                    layout.statusPadding, MaxTime)]
    /\ UNCHANGED <<storeVars, termVars, repeated, numLines, mtx, prod, stop, countVars,
                   start, cancelled, tickPending, now, budget>>

NextLayout == LayoutLine

LayoutSpec == LayoutInit /\ [][NextLayout]_vars

\* ------------------------------------------------------------- properties

Range(q) == {q[i] : i \in 1..Len(q)}

NoDuplicates(q) == \A i, j \in 1..Len(q) : q[i] = q[j] => i = j

IsPrefix(q, r) == Len(q) <= Len(r) /\ \A i \in 1..Len(q) : q[i] = r[i]

Recorded(evs) == {id \in IDs : evs[id] # NoEvent}

\* print has written every line of this repaint and still holds the lock.
RepaintWritten == start.pc = "lines" /\ start.i > Len(eventIDs)

\* The header of this repaint is written and none of its lines yet.
HeaderWritten == start.pc = "lines" /\ start.i = 1

\* A line shows the Status, Text and StatusText that ev holds.
Shows(l, ev) ==
    /\ l.ID = ev.ID
    /\ l.Status = ev.Status
    /\ l.Text = ev.Text
    /\ l.StatusText = ev.StatusText

\* C1: eventIDs holds every recorded ID exactly once, in the order of first
\* recording: a step only ever appends an ID that was not there, an update of a
\* known ID leaves the list as it is, and a repaint writes its data lines in the
\* order of eventIDs.
C1_OrderKept ==
    [][/\ IsPrefix(eventIDs, eventIDs')
       /\ NoDuplicates(eventIDs')
       /\ Recorded(events') \subseteq Range(eventIDs')
       /\ \A p \in Producers :
            (prod[p].pc = "body" /\ prod'[p].pc = "unlock") =>
                /\ prod[p].e.ID \in Range(eventIDs')
                /\ (prod[p].e.ID \in Range(eventIDs) => eventIDs' = eventIDs)
                /\ (prod[p].e.ID \notin Range(eventIDs) =>
                        eventIDs' = Append(eventIDs, prod[p].e.ID))
       /\ RepaintWritten' =>
            /\ Len(lines') = Len(eventIDs')
            /\ \A i \in 1..Len(eventIDs') : lines'[i].ID = eventIDs'[i]]_vars

\* C1 witness: both IDs recorded, db first, one of them updated since, and a
\* repaint has written the two lines.
C1_Witness ==
    /\ RepaintWritten
    /\ eventIDs = <<"db", "svc1">>
    /\ budget = 0
    /\ Len(lines) = 2

\* C2: the store holds, for the ID of a call of Event that has run its body, the
\* Status, Text and StatusText of that call; and when a repaint has written its
\* lines, each line shows the three fields its event has in the store and the
\* header counts the Done events of that same store.
C2_SnapshotConsistent ==
    /\ \A p \in Producers :
         prod[p].pc = "unlock" =>
            /\ events[prod[p].e.ID].Status = prod[p].e.Status
            /\ events[prod[p].e.ID].Text = prod[p].e.Text
            /\ events[prod[p].e.ID].StatusText = prod[p].e.StatusText
    /\ start.pc = "lines" =>
         /\ header.done = numDone(events)
         /\ \A i \in 1..(start.i - 1) : Shows(lines[i], events[eventIDs[i]])
    /\ RepaintWritten => Len(lines) = Len(eventIDs)

\* C2 witness: a repaint of two events, one of them Done after an update, has
\* written its lines.
C2_Witness ==
    /\ RepaintWritten
    /\ Len(lines) = 2
    /\ budget = 0
    /\ header.done = 1
    /\ lines[1].Status = Done
    /\ lines[2].Status = Working

\* C3: a call of Event that moves a stored event from Working to Done or to
\* Error sets its endTime to the time of the call.
C3_FreezeOnTerminal ==
    [][\A p \in Producers :
         LET e == prod[p].e IN
         (/\ prod[p].pc = "body" /\ prod'[p].pc = "unlock"
          /\ events[e.ID] # NoEvent
          /\ events[e.ID].Status = Working
          /\ e.Status \in {Done, Error}) => events'[e.ID].endTime = now]_vars

\* C4: an event that is Done or Error, or whose endTime was frozen before, keeps
\* its endTime in every later step.
C4_FreezeOnce ==
    [][\A id \in IDs :
         (/\ events[id] # NoEvent
          /\ \/ events[id].Status \in {Done, Error}
             \/ events[id].endTime # ZeroTime) =>
            events'[id].endTime = events[id].endTime]_vars

\* C5: the first call of Event for an ID sets startTime to the time of the call;
\* no later step changes the startTime or the ID of a stored event; a call of
\* Event changes the event of its own ID only, and endTime only by freezing it
\* at the time of a call that makes the event Done.
C5_StartTimeKept ==
    [][/\ \A id \in IDs :
            /\ events[id] # NoEvent =>
                /\ events'[id] # NoEvent
                /\ events'[id].startTime = events[id].startTime
                /\ events'[id].ID = events[id].ID
                /\ events'[id].endTime # events[id].endTime =>
                      (events'[id].endTime = now /\ events'[id].Status = Done)
            /\ (events[id] = NoEvent /\ events'[id] # NoEvent) =>
                /\ events'[id].startTime = now
                /\ events'[id].ID = id
       /\ \A p \in Producers :
            (prod[p].pc = "body" /\ prod'[p].pc = "unlock") =>
                \A id \in IDs \ {prod[p].e.ID} : events'[id] = events[id]]_vars

\* C5 witness: an event first recorded at time 1 is updated to Done at time 3
\* and still has its startTime.
C5_Witness ==
    \E id \in IDs :
        /\ events[id] # NoEvent
        /\ events[id].startTime = 1
        /\ events[id].endTime = 3
        /\ events[id].Status = Done

\* C6: the header a repaint writes counts as done the stored events that are
\* Done, and gives as total the number of data lines the repaint before it left
\* on the terminal, 0 when there was none.
C6_HeaderCounts ==
    HeaderWritten =>
        /\ header.done = Cardinality({id \in Recorded(events) : events[id].Status = Done})
        /\ header.total = Len(lines)

\* C6 witness: a header K/T of 1/1 is written while the store holds two events.
C6_Witness ==
    /\ HeaderWritten
    /\ header.done = 1
    /\ header.total = 1
    /\ Len(eventIDs) = 2

\* The store holds svc1 alone, Working.
OnlySvc1Working ==
    /\ eventIDs = <<"svc1">>
    /\ events["svc1"].Status = Working

\* C7 as stated: with svc1 alone recorded, Working, the first repaint writes the
\* header 0/1.
C7_FirstHeaderZeroOfOne ==
    (HeaderWritten /\ Len(lines) = 0 /\ OnlySvc1Working) =>
        (header.done = 0 /\ header.total = 1)

\* C7 amended: with svc1 alone recorded, Working, the first repaint writes the
\* header 0/0 and one data line; a repaint after one that left one line writes
\* the header 0/1.
C7_FirstHeaderZeroOfZero ==
    /\ (HeaderWritten /\ Len(lines) = 0 /\ OnlySvc1Working) =>
            (header.done = 0 /\ header.total = 0 /\ ~header.blue)
    /\ (RepaintWritten /\ OnlySvc1Working) =>
            (Len(lines) = 1 /\ Shows(lines[1], events["svc1"]))
    /\ (HeaderWritten /\ Len(lines) = 1 /\ OnlySvc1Working) =>
            (header.done = 0 /\ header.total = 1)

\* C7 witness: the second repaint of svc1 alone, Working, has written its lines
\* under the header 0/1.
C7_Witness ==
    /\ RepaintWritten
    /\ OnlySvc1Working
    /\ header.total = 1
    /\ header.done = 0
    /\ lines[1].elapsed > 0

\* C8: within a repaint whose header is blue, every stored event is Done.
C8_BlueOnlyWhenAllDone ==
    (start.pc = "lines" /\ header.blue) =>
        \A id \in Recorded(events) : events[id].Status = Done

\* C9 as stated: when Start has returned through its done branch, it returns nil
\* and exactly one print was begun since Stop was called.
C9_OneRepaintSinceCall ==
    (start.pc = "returned" /\ start.branch = "done") =>
        (start.result = "nil" /\ sinceCall = 1)

\* C9 amended: when Start has returned through its done branch, it returns nil,
\* the Stop whose signal it received has returned, and exactly one print was
\* begun since the receipt (one or more since the call of Stop); the lines of
\* that print show the store as it is under the lock.
C9_OneRepaintSinceReceipt ==
    /\ (start.pc = "returned" /\ start.branch = "done") =>
            /\ start.result = "nil"
            /\ sinceLeave = 1
            /\ sinceCall >= 1
            /\ \E s \in Stoppers : stop[s] = "returned"
    /\ (start.pc = "lines" /\ start.branch = "done") =>
            /\ sinceLeave = 1
            /\ \A i \in 1..(start.i - 1) : Shows(lines[i], events[eventIDs[i]])
    /\ (RepaintWritten /\ start.branch = "done") => Len(lines) = Len(eventIDs)

\* C9 witness: Start has returned nil after a tick repaint and the final repaint
\* that both followed the call of Stop, with a line on the terminal.
C9_Witness ==
    /\ start.pc = "returned"
    /\ start.result = "nil"
    /\ sinceCall = 2
    /\ sinceLeave = 1
    /\ Len(lines) = 1

RecordedWhileRunning(id) ==
    /\ \E p \in Producers : prod[p].pc = "unlock" /\ prod[p].e.ID = id
    /\ start.pc \notin {"idle", "returned"}
    /\ start.branch \notin {"ctx", "done"}
    /\ ~cancelled
    /\ \A s \in Stoppers : stop[s] = "idle"

\* A repaint has written its lines and the line of id shows what the store holds
\* for id.
Reflected(id) ==
    /\ RepaintWritten
    /\ \E i \in 1..Len(lines) : lines[i].ID = id /\ Shows(lines[i], events[id])

\* C11: under fair scheduling, a call of Event made while Start is running,
\* neither stopped nor cancelled, is followed by a repaint whose line for the ID
\* shows the Status, Text and StatusText the store holds for it, those of that
\* call or of a later one.
C11_EventuallyReflected ==
    \A id \in IDs : RecordedWhileRunning(id) ~> Reflected(id)

\* C11 witness: a tick repaint has written the line of an event recorded while
\* Start was running.
C11_Witness ==
    /\ start.branch = "tick"
    /\ budget = 0
    /\ cancelled = FALSE
    /\ \A s \in Stoppers : stop[s] = "idle"
    /\ \E id \in IDs : Reflected(id)


\* C12: the cursor is hidden only inside print, between the write of Hide and
\* the deferred Show, with print holding the lock; whenever print is not
\* executing, after Start has returned included, the cursor is shown.
C12_CursorShownOutsidePrint ==
    /\ cursorHidden => (start.pc \in {"header", "lines"} /\ mtx = "print")
    /\ start.pc \in {"header", "lines"} => cursorHidden

\* Start has returned after a repaint that hid the cursor, and it is shown.
C12_Witness ==
    /\ start.pc = "returned"
    /\ repeated
    /\ Len(lines) > 0
    /\ ~cursorHidden


\* C13: a second call of Stop, made after a first Stop has caused Start to
\* return, returns to its caller: it is never left sending on w.done with Start
\* gone, when nothing will ever receive from the channel.
C13_SecondStopReturns ==
    (stop[1] = "returned" /\ start.pc = "returned" /\ start.branch = "done")
        => stop[2] # "sending"


\* C14: for any terminal width, widths of 0 or below and widths smaller than
\* the timer included, the field width that align pads the left segment to,
\* w - len(r) - 1, is never negative when it is applied.
C14_FieldWidthNeverNegative ==
    layout.pc = "done" => layout.line.fieldWidth >= 0


\* C15: counting cursor rows, the cursor movement at the start of a repaint
\* leaves the cursor on the row where the previous repaint wrote its header, the
\* starting row (row 0) for the first repaint; between repaints the cursor is
\* just below the header and the numLines lines of the previous repaint, so
\* these are the rows the new block overwrites first.
C15_CursorOnPreviousHeader ==
    /\ start.pc = "header" => /\ cursorRow = headerRow
                              /\ header = NoHeader => cursorRow = 0
    /\ (repeated /\ start.pc \notin {"header", "lines"})
           => cursorRow = headerRow + 1 + numLines

\* A repaint after the first has moved the cursor, events having been recorded
\* since the previous repaint.
C15_Witness ==
    /\ start.pc = "header"
    /\ header # NoHeader
    /\ numLines >= 1
    /\ Len(eventIDs) > numLines
    /\ cursorRow = headerRow


\* C16: within one repaint statusPadding is the maximum over the stored events
\* of len(ID)+1+len(Text); on every line written the padding is statusPadding
\* minus that length of its event, never negative, and StatusText starts
\* statusPadding + 1 characters after the start of the ID.
C16_StatusTextAligned ==
    start.pc = "lines" =>
        /\ \A id \in Recorded(events) : textLen(events[id]) <= start.statusPadding
        /\ \E id \in Recorded(events) : textLen(events[id]) = start.statusPadding
        /\ \A i \in 1..(start.i - 1) :
              LET l == lines[i]
                  len == Len(l.ID) + 1 + Len(l.Text)
              IN /\ l.padding = start.statusPadding - len
                 /\ l.padding >= 0
                 /\ len + l.padding + 1 = start.statusPadding + 1

\* A repaint has written two lines, one of them padded.
C16_Witness ==
    /\ RepaintWritten
    /\ Len(eventIDs) = 2
    /\ \E i \in 1..2 : lines[i].padding > 0
    /\ \E i \in 1..2 : lines[i].padding = 0


\* C17: a print made while no event has ever been recorded is a no-op: it
\* writes nothing (no cursor movement, no hide or show, no header, no line) and
\* leaves numLines and repeated as they were, so that the first repaint that
\* has events is still the one print takes as the first.
C17_EmptyRepaintNoOp ==
    [][(start.pc = "print" /\ Len(eventIDs) = 0)
           => /\ UNCHANGED <<termVars, numLines, repeated>>
              /\ start'.pc \notin {"header", "lines"}
              /\ ~repeated /\ numLines = 0]_vars

\* Start has made its final print on an empty store and returned, nothing
\* written and the first repaint still to come.
C17_Witness ==
    /\ start.pc = "returned"
    /\ sinceLeave = 1
    /\ Len(eventIDs) = 0
    /\ ~repeated /\ numLines = 0
    /\ header = NoHeader /\ lines = <<>> /\ cursorRow = 0 /\ ~cursorHidden


\* C18: every stored event whose status is not Working has had its endTime
\* frozen, and the elapsed time of every line written for such an event,
\* endTime - startTime, is not negative.
C18_ElapsedNeverNegative ==
    /\ \A id \in Recorded(events) :
          events[id].Status # Working => events[id].endTime >= events[id].startTime
    /\ \A i \in 1..Len(lines) : lines[i].Status # Working => lines[i].elapsed >= 0

\* C19: in every header written the done count is at most the total shown.
C19_DoneAtMostTotal ==
    HeaderWritten => header.done <= header.total

\* C20: a call of Stop is never left sending on w.done when Start has returned,
\* through its cancellation branch included: nothing would receive the value
\* and the caller would stay blocked for ever.
C20_StopReturns ==
    ~(stop[1] = "sending" /\ start.pc = "returned")

====
